---------------------------- MODULE Spec2Model ----------------------------
(***************************************************************************)
(* Response aggregation and scoring core of Wahl-O-Mat-LLMs.               *)
(*                                                                         *)
(* Texts are sequences of one-character strings, so that the character     *)
(* level functions of src/src/llm_utils.py (lower/strip, substring search, *)
(* the brace scanner, the JSON decoder) are computed as the code computes  *)
(* them.                                                                   *)
(***************************************************************************)
EXTENDS Integers, Sequences, FiniteSets, TLC

VARIABLES
    pc,                  \* position of the operation under way
    arg,                 \* arguments of the call under way
    ret,                 \* value returned by the call (Unset until it returns)
    locals,              \* local variables of the call under way
    aggregated_results,  \* evaluate_statements: one dict per question
    raw_results,         \* evaluate_statements: one dict per successful run
    calls                \* the ask_model calls the call under way has made

vars == <<pc, arg, ret, locals, aggregated_results, raw_results, calls>>

\* The state of evaluate_statements and get_weighting_result.
pipeline == <<locals, aggregated_results, raw_results, calls>>

\* Neither of them has been called.
PipelineIdle ==
    /\ locals = <<>>
    /\ aggregated_results = <<>>
    /\ raw_results = <<>>
    /\ calls = <<>>

(***************************************************************************)
(* Python values                                                           *)
(***************************************************************************)

\* Python's None where a stance (an integer 0..2) is expected.
None == -1

\* ret before the call has returned.
Unset == [kind |-> "unset"]

Min(S) == CHOOSE x \in S : \A y \in S : x <= y

RECURSIVE SeqsUpTo(_, _)
\* All sequences over S of length at most n.
SeqsUpTo(S, n) ==
    IF n = 0 THEN {<<>>}
    ELSE LET shorter == SeqsUpTo(S, n - 1)
         IN  shorter \cup {Append(s, x) : s \in shorter, x \in S}

(***************************************************************************)
(* str methods                                                             *)
(***************************************************************************)

\* str.isspace for one character (the whitespace str.strip removes).
IsSpace(c) == c \in {" ", "\t", "\n", "\r"}

\* str.lower for one character.
LowerChar(c) ==
    CASE c = "A" -> "a"
      [] c = "B" -> "b"
      [] c = "J" -> "j"
      [] c = "N" -> "n"
      [] c = "S" -> "s"
      [] OTHER   -> c

\* str.lower
Lower(s) == [i \in 1..Len(s) |-> LowerChar(s[i])]

\* str.rstrip
RStrip(s) ==
    LET keep == {i \in 1..Len(s) : ~IsSpace(s[i])}
    IN  IF keep = {} THEN <<>>
        ELSE SubSeq(s, 1, CHOOSE i \in keep : \A j \in keep : j <= i)

\* str.lstrip
LStrip(s) ==
    LET keep == {i \in 1..Len(s) : ~IsSpace(s[i])}
    IN  IF keep = {} THEN <<>> ELSE SubSeq(s, Min(keep), Len(s))

\* str.strip
Strip(s) == LStrip(RStrip(s))

\* s.startswith(p)
StartsWith(s, p) == Len(p) <= Len(s) /\ SubSeq(s, 1, Len(p)) = p

\* s.endswith(p)
EndsWith(s, p) ==
    Len(p) <= Len(s) /\ SubSeq(s, Len(s) - Len(p) + 1, Len(s)) = p

\* k in s, for two strings
IsSubstring(k, s) ==
    \E i \in 0..(Len(s) - Len(k)) : SubSeq(s, i + 1, i + Len(k)) = k

(***************************************************************************)
(* Answer Normalizer                                                       *)
(***************************************************************************)

\* Position of key k in the dict d (a sequence of key/value pairs), 0 if absent.
DictIndex(d, k) ==
    LET at == {i \in 1..Len(d) : d[i].key = k}
    IN  IF at = {} THEN 0 ELSE Min(at)

\* d[k] = v on a dict: a new key goes last, a known key keeps its place.
DictSet(d, k, v) ==
    IF DictIndex(d, k) = 0 THEN Append(d, [key |-> k, value |-> v])
    ELSE [d EXCEPT ![DictIndex(d, k)].value = v]

RECURSIVE LoadLoop(_, _, _)
LoadLoop(mapping_data, i, d) ==
    IF i > Len(mapping_data) THEN d
    ELSE LoadLoop(mapping_data, i + 1,
                  DictSet(d, Strip(Lower(mapping_data[i].message)),
                          mapping_data[i].id))

\* The dict comprehension over the entries of answer.json.
load_answer_mapping(mapping_data) == LoadLoop(mapping_data, 1, <<>>)

RECURSIVE MapLoop(_, _, _)
\* for key, value in mapping.items(): if key in answer_lower: return value
MapLoop(answer_lower, mapping, i) ==
    IF i > Len(mapping) THEN None
    ELSE IF IsSubstring(mapping[i].key, answer_lower) THEN mapping[i].value
    ELSE MapLoop(answer_lower, mapping, i + 1)

\* Mutant: the text is matched as received, neither lower-cased nor trimmed.
MapAnswerNoLower(answer_text, mapping) == MapLoop(answer_text, mapping, 1)

\* Mutant: the last matching key wins.
MapAnswerLast(answer_text, mapping) ==
    LET t    == Strip(Lower(answer_text))
        hits == {i \in 1..Len(mapping) : IsSubstring(mapping[i].key, t)}
    IN  IF hits = {} THEN None
        ELSE mapping[CHOOSE i \in hits : \A j \in hits : j <= i].value

map_answer_to_numeric(answer_text, mapping) ==
    MapLoop(Strip(Lower(answer_text)), mapping, 1)

(***************************************************************************)
(* Normalizer on its own: every text and every loaded mapping in bounds    *)
(***************************************************************************)

\* Longest answer text handed to the normalizer.
MaxTextLen == 3
\* Most entries in answer.json.
MaxMapLen == 2

NormChars == {"a", "b", "A", " "}

\* The "message" values answer.json may hold.
Messages ==
    {<<"a">>, <<"A">>, <<"b">>, <<"a", "b">>, <<" ", "b">>, <<"b", "a">>}

\* answer.json: entry number i carries id i - 1.
MappingFiles ==
    {[i \in 1..Len(m) |-> [message |-> m[i], id |-> i - 1]] :
        m \in SeqsUpTo(Messages, MaxMapLen)}

InitNormalize ==
    /\ pc = "normalize"
    /\ arg \in [text : SeqsUpTo(NormChars, MaxTextLen),
                mapping : {load_answer_mapping(f) : f \in MappingFiles}]
    /\ ret = Unset
    /\ PipelineIdle

Normalize ==
    /\ pc = "normalize"
    /\ ret' = [kind |-> "stance",
               value |-> map_answer_to_numeric(arg.text, arg.mapping)]
    /\ pc' = "normalized"
    /\ UNCHANGED <<arg, pipeline>>

SpecNormalize == InitNormalize /\ [][Normalize]_vars

\* Keys of the mapping that occur in the normalized text, by position.
MatchingKeys(text, mapping) ==
    {i \in 1..Len(mapping) :
        IsSubstring(mapping[i].key, Strip(Lower(text)))}

\* C1: map_answer_to_numeric(T, M) is the stance of the first key of M, in
\* M's order, that is a substring of T lower-cased and trimmed, and None
\* when no key of M is a substring of it.
C1_FirstMatchingKey ==
    pc = "normalized" =>
        LET hits == MatchingKeys(arg.text, arg.mapping)
        IN  IF hits = {} THEN ret.value = None
            ELSE /\ ret.value = arg.mapping[Min(hits)].value
                 /\ \A i \in 1..(Min(hits) - 1) :
                        ~IsSubstring(arg.mapping[i].key, Strip(Lower(arg.text)))

\* C1 witness: two keys with different stances match a text that only
\* matches after lower-casing and trimming; the first one is returned.
C1_Witness ==
    /\ pc = "normalized"
    /\ Cardinality(MatchingKeys(arg.text, arg.mapping)) = 2
    /\ arg.text # Strip(Lower(arg.text))
    /\ MapLoop(arg.text, arg.mapping, 1) = None
    /\ ret.value = arg.mapping[1].value
    /\ ret.value # arg.mapping[2].value

(***************************************************************************)
(* Response Parser: extract_first_json                                     *)
(***************************************************************************)

\* An Optional[str]: None, or the text s.
NoText == [isNone |-> TRUE, s |-> <<>>]
SomeText(s) == [isNone |-> FALSE, s |-> s]

\* text.find(c) as a 1-based position, 0 for -1.
Find(text, c) ==
    LET at == {i \in 1..Len(text) : text[i] = c}
    IN  IF at = {} THEN 0 ELSE Min(at)

RECURSIVE ScanLoop(_, _, _, _, _)
\* The for loop of extract_first_json from position i on; returns end_index
\* as a 1-based position, 0 for -1.
ScanLoop(text, i, count, in_string, escape) ==
    IF i > Len(text) THEN 0
    ELSE LET ch  == text[i]
             ins == IF ch = "\"" /\ ~escape THEN ~in_string ELSE in_string
             cnt == IF ins THEN count
                    ELSE IF ch = "{" THEN count + 1
                    ELSE IF ch = "}" THEN count - 1
                    ELSE count
             esc == ch = "\\" /\ ~escape
         IN  IF ~ins /\ ch = "}" /\ cnt = 0 THEN i
             ELSE ScanLoop(text, i + 1, cnt, ins, esc)

RECURSIVE ScanLoopNoQuotes(_, _, _)
ScanLoopNoQuotes(text, i, count) ==
    IF i > Len(text) THEN 0
    ELSE LET cnt == IF text[i] = "{" THEN count + 1
                    ELSE IF text[i] = "}" THEN count - 1
                    ELSE count
         IN  IF text[i] = "}" /\ cnt = 0 THEN i
             ELSE ScanLoopNoQuotes(text, i + 1, cnt)

\* Mutant: the scanner counts every brace, also those inside string literals.
ExtractNoQuotes(text) ==
    LET start_index == Find(text, "{")
        end_index   == ScanLoopNoQuotes(text, start_index, 0)
    IN  IF start_index = 0 \/ end_index = 0 THEN NoText
        ELSE SomeText(SubSeq(text, start_index, end_index))

RECURSIVE ScanLoopNoEscape(_, _, _, _)
ScanLoopNoEscape(text, i, count, in_string) ==
    IF i > Len(text) THEN 0
    ELSE LET ch  == text[i]
             ins == IF ch = "\"" THEN ~in_string ELSE in_string
             cnt == IF ins THEN count
                    ELSE IF ch = "{" THEN count + 1
                    ELSE IF ch = "}" THEN count - 1
                    ELSE count
         IN  IF ~ins /\ ch = "}" /\ cnt = 0 THEN i
             ELSE ScanLoopNoEscape(text, i + 1, cnt, ins)

\* Mutant: every quote toggles the string state, escaped or not.
ExtractNoEscape(text) ==
    LET start_index == Find(text, "{")
        end_index   == ScanLoopNoEscape(text, start_index, 0, FALSE)
    IN  IF start_index = 0 \/ end_index = 0 THEN NoText
        ELSE SomeText(SubSeq(text, start_index, end_index))

extract_first_json(text) ==
    LET start_index == Find(text, "{")
    IN  IF start_index = 0 THEN NoText
        ELSE LET end_index == ScanLoop(text, start_index, 0, FALSE, FALSE)
             IN  IF end_index # 0
                 THEN SomeText(SubSeq(text, start_index, end_index))
                 ELSE NoText

(***************************************************************************)
(* The scanner on its own: every text in bounds                            *)
(***************************************************************************)

\* Longest text handed to the scanner.
MaxScanLen == 7

ScanChars == {"{", "}", "\"", "\\", "a"}

InitExtract ==
    /\ pc = "extract"
    /\ arg \in [text : SeqsUpTo(ScanChars, MaxScanLen)]
    /\ ret = Unset
    /\ PipelineIdle

Extract ==
    /\ pc = "extract"
    /\ ret' = extract_first_json(arg.text)
    /\ pc' = "extracted"
    /\ UNCHANGED <<arg, pipeline>>

SpecExtract == InitExtract /\ [][Extract]_vars

\* The backslashes that directly precede position i, looking back no further
\* than position from.
BackslashRun(text, from, i) ==
    Cardinality({j \in from..(i - 1) :
                    \A k \in j..(i - 1) : text[k] = "\\"})

\* The quotes of text[from..i] that no backslash escapes.
UnescapedQuotes(text, from, i) ==
    {j \in from..i :
        text[j] = "\"" /\ BackslashRun(text, from, j) % 2 = 0}

\* Position i lies inside a double-quoted literal opened at or after from
\* (an opening quote is inside, a closing quote outside).
InsideString(text, from, i) ==
    Cardinality(UnescapedQuotes(text, from, i)) % 2 = 1

\* Brace depth after position i, braces inside literals not counted.
Depth(text, from, i) ==
    Cardinality({j \in from..i : text[j] = "{" /\ ~InsideString(text, from, j)})
    - Cardinality({j \in from..i : text[j] = "}" /\ ~InsideString(text, from, j)})

\* The '}' outside literals at which the depth is back to 0.
Closers(text, from) ==
    {i \in from..Len(text) :
        /\ text[i] = "}"
        /\ ~InsideString(text, from, i)
        /\ Depth(text, from, i) = 0}

\* C2: extract_first_json returns the substring from the first '{' to the
\* first '}' at which the brace depth, not counting braces inside
\* double-quoted literals, is back to 0; None when the text has no '{' or
\* the depth never returns to 0.
C2_FirstBalancedObject ==
    pc = "extracted" =>
        LET from == Find(arg.text, "{")
        IN  IF from = 0 \/ Closers(arg.text, from) = {}
            THEN ret = NoText
            ELSE ret = SomeText(SubSeq(arg.text, from,
                                       Min(Closers(arg.text, from))))

\* C2 witness: a '}' inside a literal that follows an escaped quote is
\* skipped, and the object ends at a later '}'.
C2_Witness ==
    /\ pc = "extracted"
    /\ ~ret.isNone
    /\ \E i \in 1..(Len(ret.s) - 1) :
          /\ ret.s[i] = "}"
          /\ InsideString(ret.s, 1, i)
          /\ \E j \in 2..(i - 1) :
                /\ ret.s[j] = "\""
                /\ BackslashRun(ret.s, 1, j) % 2 = 1
                /\ InsideString(ret.s, 1, j)

(***************************************************************************)
(* json.loads, as CPython's json.decoder and json.scanner compute it.      *)
(* A decoded value is a record: t is its Python type, s the characters of  *)
(* a str (or the lexeme of a number), items the elements of a list or the  *)
(* key/value pairs of a dict in insertion order.                           *)
(***************************************************************************)

PyNone == [t |-> "None", s |-> <<>>, items |-> <<>>]
PyBool(name) == [t |-> "bool", s |-> name, items |-> <<>>]
PyNum(lexeme) == [t |-> "number", s |-> lexeme, items |-> <<>>]
PyStr(chars) == [t |-> "str", s |-> chars, items |-> <<>>]
PyList(elems) == [t |-> "list", s |-> <<>>, items |-> elems]
PyDict(pairs) == [t |-> "dict", s |-> <<>>, items |-> pairs]

\* A decoding step: ok, the value and the position after it; or the
\* JSONDecodeError.
Decoded(v, next) == [ok |-> TRUE, v |-> v, next |-> next]
DecodeError == [ok |-> FALSE, v |-> PyNone, next |-> 0]

\* s[i:i+1]: the character at position i, "" past the end.
At(t, i) == IF i >= 1 /\ i <= Len(t) THEN t[i] ELSE ""

\* s[i:i+n]
Slice(t, i, n) == SubSeq(t, i, IF i + n - 1 <= Len(t) THEN i + n - 1 ELSE Len(t))

RECURSIVE SkipWs(_, _)
\* WHITESPACE.match(s, i).end()
SkipWs(t, i) == IF IsSpace(At(t, i)) THEN SkipWs(t, i + 1) ELSE i

IsDigit(c) == c \in {"0", "1", "2", "3", "4", "5", "6", "7", "8", "9"}

IsHex(c) ==
    IsDigit(c) \/ c \in {"a", "b", "c", "d", "e", "f", "A", "B", "C", "D", "E", "F"}

\* Characters below 0x20, which a strict decoder refuses inside a string.
IsControl(c) == c \in {"\t", "\n", "\r", "\f", "<BS>"}

\* BACKSLASH: the character a one-letter escape stands for ("" if none).
Unescape(e) ==
    CASE e = "\"" -> "\""
      [] e = "\\" -> "\\"
      [] e = "/"  -> "/"
      [] e = "b"  -> "<BS>"
      [] e = "f"  -> "\f"
      [] e = "n"  -> "\n"
      [] e = "r"  -> "\r"
      [] e = "t"  -> "\t"
      [] OTHER    -> ""

RECURSIVE ScanString(_, _, _)
\* py_scanstring from position i, just after the opening quote.  A \uXXXX
\* escape decodes to the one character written "<U>".
ScanString(t, i, acc) ==
    LET c == At(t, i)
    IN  IF c = "" THEN DecodeError
        ELSE IF c = "\"" THEN Decoded(acc, i + 1)
        ELSE IF c = "\\" THEN
            LET e == At(t, i + 1)
            IN  IF e = "u"
                THEN IF /\ i + 5 <= Len(t)
                        /\ \A k \in (i + 2)..(i + 5) : IsHex(t[k])
                     THEN ScanString(t, i + 6, Append(acc, "<U>"))
                     ELSE DecodeError
                ELSE IF Unescape(e) = "" THEN DecodeError
                ELSE ScanString(t, i + 2, Append(acc, Unescape(e)))
        ELSE IF IsControl(c) THEN DecodeError
        ELSE ScanString(t, i + 1, Append(acc, c))

RECURSIVE DigitsEnd(_, _)
\* Position after the run of digits that starts at i.
DigitsEnd(t, i) == IF IsDigit(At(t, i)) THEN DigitsEnd(t, i + 1) ELSE i

\* NUMBER_RE.match(s, i).end(), 0 when the pattern does not match at i:
\* (-?(?:0|[1-9][0-9]*))(\.[0-9]+)?([eE][-+]?[0-9]+)?
NumberEnd(t, i) ==
    LET j      == IF At(t, i) = "-" THEN i + 1 ELSE i
        intEnd == IF At(t, j) = "0" THEN j + 1
                  ELSE IF IsDigit(At(t, j)) THEN DigitsEnd(t, j)
                  ELSE 0
        frEnd  == IF At(t, intEnd) = "." /\ IsDigit(At(t, intEnd + 1))
                  THEN DigitsEnd(t, intEnd + 1)
                  ELSE intEnd
        k      == IF At(t, frEnd + 1) \in {"-", "+"} THEN frEnd + 2
                  ELSE frEnd + 1
    IN  IF intEnd = 0 THEN 0
        ELSE IF At(t, frEnd) \in {"e", "E"} /\ IsDigit(At(t, k))
        THEN DigitsEnd(t, k)
        ELSE frEnd

Chars_null == <<"n", "u", "l", "l">>
Chars_true == <<"t", "r", "u", "e">>
Chars_false == <<"f", "a", "l", "s", "e">>
Chars_NaN == <<"N", "a", "N">>
Chars_Infinity == <<"I", "n", "f", "i", "n", "i", "t", "y">>

RECURSIVE ScanOnce(_, _)
RECURSIVE ObjectMembers(_, _, _)
RECURSIVE ArrayElements(_, _, _)

\* JSONObject from position end, just after the '{'.
JSONObject(t, end) ==
    LET e == IF At(t, end) # "\"" THEN SkipWs(t, end) ELSE end
    IN  IF At(t, e) = "}" /\ At(t, end) # "\"" THEN Decoded(PyDict(<<>>), e + 1)
        ELSE IF At(t, e) # "\"" THEN DecodeError
        ELSE ObjectMembers(t, e + 1, <<>>)

\* The loop of JSONObject from position end, just after the opening quote
\* of a key; pairs holds the members read so far.
ObjectMembers(t, end, pairs) ==
    LET key == ScanString(t, end, <<>>)
    IN  IF ~key.ok THEN DecodeError
        ELSE
        LET colon == IF At(t, key.next) # ":" THEN SkipWs(t, key.next)
                     ELSE key.next
        IN  IF At(t, colon) # ":" THEN DecodeError
            ELSE
            LET val == ScanOnce(t, SkipWs(t, colon + 1))
            IN  IF ~val.ok THEN DecodeError
                ELSE
                LET sep   == SkipWs(t, val.next)
                    added == DictSet(pairs, key.v, val.v)
                    nxt   == SkipWs(t, sep + 1)
                IN  IF At(t, sep) = "}" THEN Decoded(PyDict(added), sep + 1)
                    ELSE IF At(t, sep) # "," THEN DecodeError
                    ELSE IF At(t, nxt) # "\"" THEN DecodeError
                    ELSE ObjectMembers(t, nxt + 1, added)

\* JSONArray from position end, just after the '['.
JSONArray(t, end) ==
    LET e == SkipWs(t, end)
    IN  IF At(t, e) = "]" THEN Decoded(PyList(<<>>), e + 1)
        ELSE ArrayElements(t, e, <<>>)

ArrayElements(t, end, elems) ==
    LET val == ScanOnce(t, end)
    IN  IF ~val.ok THEN DecodeError
        ELSE
        LET sep == SkipWs(t, val.next)
        IN  IF At(t, sep) = "]"
            THEN Decoded(PyList(Append(elems, val.v)), sep + 1)
            ELSE IF At(t, sep) # "," THEN DecodeError
            ELSE ArrayElements(t, SkipWs(t, sep + 1), Append(elems, val.v))

\* _scan_once
ScanOnce(t, idx) ==
    LET nextchar == At(t, idx)
    IN  IF nextchar = "" THEN DecodeError
        ELSE IF nextchar = "\"" THEN
            LET str == ScanString(t, idx + 1, <<>>)
            IN  IF str.ok THEN Decoded(PyStr(str.v), str.next) ELSE DecodeError
        ELSE IF nextchar = "{" THEN JSONObject(t, idx + 1)
        ELSE IF nextchar = "[" THEN JSONArray(t, idx + 1)
        ELSE IF nextchar = "n" /\ Slice(t, idx, 4) = Chars_null
        THEN Decoded(PyNone, idx + 4)
        ELSE IF nextchar = "t" /\ Slice(t, idx, 4) = Chars_true
        THEN Decoded(PyBool(Chars_true), idx + 4)
        ELSE IF nextchar = "f" /\ Slice(t, idx, 5) = Chars_false
        THEN Decoded(PyBool(Chars_false), idx + 5)
        ELSE IF NumberEnd(t, idx) # 0
        THEN Decoded(PyNum(SubSeq(t, idx, NumberEnd(t, idx) - 1)),
                     NumberEnd(t, idx))
        ELSE IF nextchar = "N" /\ Slice(t, idx, 3) = Chars_NaN
        THEN Decoded(PyNum(Chars_NaN), idx + 3)
        ELSE IF nextchar = "I" /\ Slice(t, idx, 8) = Chars_Infinity
        THEN Decoded(PyNum(Chars_Infinity), idx + 8)
        ELSE IF nextchar = "-" /\ Slice(t, idx + 1, 8) = Chars_Infinity
        THEN Decoded(PyNum(<<"-">> \o Chars_Infinity), idx + 9)
        ELSE DecodeError

\* Mutant: the decoder accepts text after the value ("Extra data").
JsonLoadsLenient(text) == ScanOnce(text, SkipWs(text, 1))

\* json.loads(text): ok and the value, or not ok for a JSONDecodeError.
json_loads(text) ==
    LET obj == ScanOnce(text, SkipWs(text, 1))
    IN  IF ~obj.ok THEN DecodeError
        ELSE IF SkipWs(text, obj.next) # Len(text) + 1 THEN DecodeError
        ELSE obj

(***************************************************************************)
(* Response Parser: clean_json_response and robust_json_parse              *)
(***************************************************************************)

\* The backquote character (a TLA+ string cannot hold one).
Backquote == "BACKQUOTE"

Fence == <<Backquote, Backquote, Backquote>>
FenceJsonOpen == Fence \o <<"j", "s", "o", "n", "\n">>
FenceOpen == Fence \o <<"\n">>
FenceClose == <<"\n">> \o Fence

\* s[n:]
DropFirst(s, n) == SubSeq(s, n + 1, Len(s))
\* s[:-n]
DropLast(s, n) == SubSeq(s, 1, Len(s) - n)

\* Mutant: the fences are removed but the text is not trimmed first.
CleanNoStrip(response_text) ==
    LET opened == IF StartsWith(response_text, FenceJsonOpen)
                  THEN DropFirst(response_text, Len(FenceJsonOpen))
                  ELSE IF StartsWith(response_text, FenceOpen)
                  THEN DropFirst(response_text, Len(FenceOpen))
                  ELSE response_text
    IN  IF EndsWith(opened, FenceClose)
        THEN DropLast(opened, Len(FenceClose)) ELSE opened

\* strip(), then the opening fence (three backquotes, optionally "json", a
\* newline) is removed from the start and the closing fence (a newline and
\* three backquotes) from the end.
clean_json_response(response_text) ==
    LET cleaned == Strip(response_text)
        opened  == IF StartsWith(cleaned, FenceJsonOpen)
                   THEN DropFirst(cleaned, Len(FenceJsonOpen))
                   ELSE IF StartsWith(cleaned, FenceOpen)
                   THEN DropFirst(cleaned, Len(FenceOpen))
                   ELSE cleaned
    IN  IF EndsWith(opened, FenceClose)
        THEN DropLast(opened, Len(FenceClose)) ELSE opened

\* Mutant: the closing brace is appended whether or not the text ends with one.
RobustParseAlwaysRetry(response_text) ==
    LET cleaned == clean_json_response(response_text)
        first   == json_loads(cleaned)
        fixed   == RStrip(cleaned) \o <<"}">>
        second  == json_loads(fixed)
    IN  IF first.ok THEN [value |-> first.v, loads |-> <<cleaned>>]
        ELSE [value |-> IF second.ok THEN second.v ELSE PyNone,
              loads |-> <<cleaned, fixed>>]

\* Mutant: the test for a closing brace and the repair use the text as is,
\* trailing whitespace included.
RobustParseNoRStrip(response_text) ==
    LET cleaned == clean_json_response(response_text)
        first   == json_loads(cleaned)
        fixed   == cleaned \o <<"}">>
        second  == json_loads(fixed)
    IN  IF first.ok THEN [value |-> first.v, loads |-> <<cleaned>>]
        ELSE IF ~EndsWith(cleaned, <<"}">>)
        THEN [value |-> IF second.ok THEN second.v ELSE PyNone,
              loads |-> <<cleaned, fixed>>]
        ELSE [value |-> PyNone, loads |-> <<cleaned>>]

\* robust_json_parse: the value it returns and the texts it hands to
\* json.loads, in order.
RobustParseRun(response_text) ==
    LET cleaned       == clean_json_response(response_text)
        first         == json_loads(cleaned)
        cleaned_fixed == RStrip(cleaned) \o <<"}">>
        second        == json_loads(cleaned_fixed)
    IN  IF first.ok THEN [value |-> first.v, loads |-> <<cleaned>>]
        ELSE IF ~EndsWith(RStrip(cleaned), <<"}">>)
        THEN [value |-> IF second.ok THEN second.v ELSE PyNone,
              loads |-> <<cleaned, cleaned_fixed>>]
        ELSE [value |-> PyNone, loads |-> <<cleaned>>]

robust_json_parse(response_text) == RobustParseRun(response_text).value

(***************************************************************************)
(* The parser on its own: complete, truncated and fenced responses         *)
(***************************************************************************)

\* {"answer":"ja","reason":"r"}
Doc_AnswerReason ==
    <<"{", "\"", "a", "n", "s", "w", "e", "r", "\"", ":", "\"", "j", "a",
      "\"", ",", "\"", "r", "e", "a", "s", "o", "n", "\"", ":", "\"", "r",
      "\"", "}">>
\* {"a":{"b":1}}
Doc_Nested ==
    <<"{", "\"", "a", "\"", ":", "{", "\"", "b", "\"", ":", "1", "}", "}">>
\* {"a":1,}
Doc_TrailingComma ==
    <<"{", "\"", "a", "\"", ":", "1", ",", "}">>
\* [1]
Doc_List ==
    <<"[", "1", "]">>
\* null
Doc_Null ==
    <<"n", "u", "l", "l">>

ParseDocs ==
    {Doc_AnswerReason, Doc_Nested, Doc_TrailingComma, Doc_List, Doc_Null}

\* Every beginning of a document: what a stream cut anywhere delivers.
Truncations(d) == {SubSeq(d, 1, k) : k \in 0..Len(d)}

\* A response: a document cut anywhere, possibly inside a Markdown code
\* fence, possibly followed by whitespace.
ParseTexts ==
    {pre \o body \o post :
        pre  \in {<<>>, FenceJsonOpen, FenceOpen},
        body \in UNION {Truncations(d) : d \in ParseDocs},
        post \in {<<>>, <<" ">>, FenceClose, <<" ">> \o FenceClose}}

InitParse ==
    /\ pc = "parse"
    /\ arg \in [text : ParseTexts]
    /\ ret = Unset
    /\ PipelineIdle

Parse ==
    /\ pc = "parse"
    /\ ret' = RobustParseRun(arg.text)
    /\ pc' = "parsed"
    /\ UNCHANGED <<arg, pipeline>>

SpecParse == InitParse /\ [][Parse]_vars

\* What one json.loads attempt on text leaves robust_json_parse with.
ValueOrNone(text) ==
    IF json_loads(text).ok THEN json_loads(text).v ELSE PyNone

Key_answer ==
    <<"a", "n", "s", "w", "e", "r">>
Key_reason ==
    <<"r", "e", "a", "s", "o", "n">>
Key_important_theses ==
    <<"i", "m", "p", "o", "r", "t", "a", "n", "t", "_", "t", "h", "e", "s",
      "e", "s">>
Key_important_thesen ==
    <<"i", "m", "p", "o", "r", "t", "a", "n", "t", "_", "t", "h", "e", "s",
      "e", "n">>
\* k in d
HasKey(d, k) == DictIndex(d.items, k) # 0

\* d.get(k, default)
Get(d, k, default) ==
    IF HasKey(d, k) THEN d.items[DictIndex(d.items, k)].value ELSE default

\* d with key k removed (d.pop(k) returns Get(d, k, .)).
Pop(d, k) ==
    PyDict([i \in 1..(Len(d.items) - 1) |->
               IF i < DictIndex(d.items, k) THEN d.items[i]
               ELSE d.items[i + 1]])

\* d[k] = v
Set(d, k, v) == PyDict(DictSet(d.items, k, v))

\* if "important_thesen" in d and "important_theses" not in d:
\*     d["important_theses"] = d.pop("important_thesen")
NormalizeKey(d) ==
    IF HasKey(d, Key_important_thesen) /\ ~HasKey(d, Key_important_theses)
    THEN Set(Pop(d, Key_important_thesen), Key_important_theses,
             Get(d, Key_important_thesen, PyNone))
    ELSE d

(***************************************************************************)
(* Single-Question Evaluator                                               *)
(***************************************************************************)

\* What a call leaves its caller with: None, an exception, or a dict.
ReturnsNone == [kind |-> "None"]
Raises(exception) == [kind |-> "raise", exception |-> exception]

\* The "weighted" placeholder "" and the two weights.
Placeholder == PyStr(<<>>)
Weight1 == PyNum(<<"1">>)
Weight2 == PyNum(<<"2">>)

\* The assignment x = e followed by the statements body(x): e is evaluated
\* once and x names its value.
Assign(e, body(_)) == CHOOSE r \in {body(x) : x \in {e}} : TRUE

\* evaluate_statement_single, given what ask_model returned.  A decoded
\* value that is no dict has no .get, an answer that is no str no .lower:
\* both raise AttributeError.
evaluate_statement_single(q, response_text, answer_mapping) ==
    IF response_text.isNone THEN ReturnsNone
    ELSE
    Assign(clean_json_response(response_text.s), LAMBDA cleaned_response :
    Assign(robust_json_parse(cleaned_response), LAMBDA response_json :
        IF response_json = PyNone THEN ReturnsNone
        ELSE IF response_json.t # "dict" THEN Raises("AttributeError")
        ELSE IF Get(response_json, Key_answer, PyStr(<<>>)).t # "str"
        THEN Raises("AttributeError")
        ELSE [kind     |-> "dict",
              id       |-> q.id,
              answer   |-> Get(response_json, Key_answer, PyStr(<<>>)),
              numeric  |-> map_answer_to_numeric(
                               Get(response_json, Key_answer, PyStr(<<>>)).s,
                               answer_mapping),
              reason   |-> Get(response_json, Key_reason, PyStr(<<>>)),
              weighted |-> Placeholder]))

(***************************************************************************)
(* Importance Weighter: one attempt                                        *)
(***************************************************************************)

\* re.search(r"({.*})", text, re.DOTALL): from the first '{' to the last '}'.
GreedyBraces(text) ==
    LET first  == Find(text, "{")
        closes == {i \in 1..Len(text) : text[i] = "}"}
        last   == CHOOSE i \in closes : \A j \in closes : j <= i
    IN  IF first = 0 \/ closes = {} THEN NoText
        ELSE IF last < first THEN NoText
        ELSE SomeText(SubSeq(text, first, last))

\* k in v, for a decoded value v: TRUE or FALSE, or "raise" where the
\* operator raises TypeError (v is a number or a bool).
In(k, v) ==
    CASE v.t = "dict" -> HasKey(v, k)
      [] v.t = "list" -> \E i \in 1..Len(v.items) : v.items[i] = PyStr(k)
      [] v.t = "str"  -> IsSubstring(k, v.s)
      [] OTHER        -> FALSE

\* The operator "in" raises TypeError on v.
InRaises(v) == v.t \notin {"dict", "list", "str"}

\* Mutant: only the spelling "important_theses" is accepted.
WeightingTryCanonicalOnly(response_text) ==
    IF response_text.isNone THEN [ok |-> FALSE, value |-> PyNone]
    ELSE
    Assign(clean_json_response(response_text.s),
           LAMBDA weighting_response_clean :
    Assign(GreedyBraces(weighting_response_clean), LAMBDA match :
    Assign(IF ~match.isNone THEN robust_json_parse(match.s) ELSE PyNone,
           LAMBDA weighting_result :
        IF weighting_result.t = "dict"
           /\ HasKey(weighting_result, Key_important_theses)
        THEN [ok |-> TRUE, value |-> weighting_result]
        ELSE [ok |-> FALSE, value |-> PyNone])))

\* The body of the try block for one response: the valid result it breaks
\* out of the loop with, or not ok when it raises (clean_json_response(None)
\* and .pop on a value that is no dict raise AttributeError, "in" on a
\* number TypeError, an invalid result ValueError).
WeightingTry(response_text) ==
    IF response_text.isNone THEN [ok |-> FALSE, value |-> PyNone]
    ELSE
    Assign(clean_json_response(response_text.s),
           LAMBDA weighting_response_clean :
    Assign(GreedyBraces(weighting_response_clean), LAMBDA match :
    Assign(IF ~match.isNone THEN robust_json_parse(match.s) ELSE PyNone,
           LAMBDA weighting_result :
    LET rename == /\ In(Key_important_thesen, weighting_result)
                  /\ ~In(Key_important_theses, weighting_result)
    IN  IF weighting_result = PyNone \/ InRaises(weighting_result)
        THEN [ok |-> FALSE, value |-> PyNone]
        ELSE IF ~(In(Key_important_theses, weighting_result)
                  \/ In(Key_important_thesen, weighting_result))
        THEN [ok |-> FALSE, value |-> PyNone]
        ELSE IF rename /\ weighting_result.t # "dict"
        THEN [ok |-> FALSE, value |-> PyNone]
        ELSE [ok    |-> TRUE,
              value |-> IF rename THEN NormalizeKey(weighting_result)
                        ELSE weighting_result])))

(***************************************************************************)
(* Aggregator: the majority vote                                           *)
(***************************************************************************)

RECURSIVE CounterLoop(_, _, _)
\* Counter(values): a dict from each value to its count, in first-seen order.
CounterLoop(values, i, d) ==
    IF i > Len(values) THEN d
    ELSE CounterLoop(values, i + 1,
                     DictSet(d, values[i],
                             IF DictIndex(d, values[i]) = 0 THEN 1
                             ELSE d[DictIndex(d, values[i])].value + 1))

Counter(values) == CounterLoop(values, 1, <<>>)

\* Mutant: among the most frequent values the smallest wins.
MostCommonSmallest(counter) ==
    LET best == {i \in 1..Len(counter) :
                    \A j \in 1..Len(counter) : counter[j].value <= counter[i].value}
    IN  Min({counter[i].key : i \in best})

\* counter.most_common(1)[0][0]: max() over the items keeps the first one
\* with the highest count.
MostCommon(counter) ==
    LET best == {i \in 1..Len(counter) :
                    \A j \in 1..Len(counter) : counter[j].value <= counter[i].value}
    IN  counter[Min(best)].key

\* [x for x in seq if Test(x)]
Filter(seq, Test(_)) == SelectSeq(seq, Test)

\* Mutant: a question without a successful run gets no aggregated row.
AggregateDropEmpty(q, responses_for_question, repeat_count) ==
    IF responses_for_question = <<>> THEN <<>>
    ELSE <<[question_nr  |-> q.id,
            answer       |-> responses_for_question[1].answer,
            numeric      |-> responses_for_question[1].numeric,
            reason       |-> responses_for_question[1].reason,
            weighted     |-> Placeholder,
            repeat_count |-> repeat_count]>>

\* Mutant: the texts are those of the first successful run, whatever its
\* stance.
AggregateFirstRun(q, responses_for_question, repeat_count) ==
    LET IsNumeric(r)   == r.numeric # None
        numeric_values == [i \in 1..Len(Filter(responses_for_question, IsNumeric))
                              |-> Filter(responses_for_question, IsNumeric)[i].numeric]
        found == responses_for_question # <<>>
    IN  <<[question_nr  |-> q.id,
           answer       |-> IF found THEN responses_for_question[1].answer
                            ELSE PyStr(<<>>),
           numeric      |-> IF found /\ numeric_values # <<>>
                            THEN MostCommon(Counter(numeric_values))
                            ELSE None,
           reason       |-> IF found THEN responses_for_question[1].reason
                            ELSE PyStr(<<>>),
           weighted     |-> Placeholder,
           repeat_count |-> repeat_count]>>

\* Lines 87 to 111 of evaluate_statements: the rows (exactly one) appended
\* to aggregated_results for question q after its runs.
AggregateRows(q, responses_for_question, repeat_count) ==
    LET IsNumeric(r)   == r.numeric # None
        numeric_values == [i \in 1..Len(Filter(responses_for_question, IsNumeric))
                              |-> Filter(responses_for_question, IsNumeric)[i].numeric]
        aggregated_numeric ==
            IF responses_for_question # <<>> /\ numeric_values # <<>>
            THEN MostCommon(Counter(numeric_values))
            ELSE None
        IsCandidate(r) == r.numeric = aggregated_numeric
        candidate_responses == Filter(responses_for_question, IsCandidate)
        found == responses_for_question # <<>> /\ candidate_responses # <<>>
    IN  <<[question_nr  |-> q.id,
           answer       |-> IF found THEN candidate_responses[1].answer
                            ELSE PyStr(<<>>),
           numeric      |-> aggregated_numeric,
           reason       |-> IF found THEN candidate_responses[1].reason
                            ELSE PyStr(<<>>),
           weighted     |-> IF found THEN candidate_responses[1].weighted
                            ELSE Placeholder,
           repeat_count |-> repeat_count]>>

(***************************************************************************)
(* Aggregator: the final pass that assigns the weights                     *)
(***************************************************************************)

\* bool(v) for a decoded value.
Truthy(v) ==
    CASE v.t = "None" -> FALSE
      [] v.t = "bool" -> v.s = Chars_true
      [] v.t = "number" ->
            \E i \in 1..Len(v.s) :
                /\ v.s[i] \in {"1", "2", "3", "4", "5", "6", "7", "8", "9", "N", "I"}
                /\ \A j \in 1..i : v.s[j] \notin {"e", "E"}
      [] v.t = "str" -> v.s # <<>>
      [] OTHER -> v.items # <<>>

DigitChar(d) ==
    CASE d = 0 -> "0" [] d = 1 -> "1" [] d = 2 -> "2" [] d = 3 -> "3"
      [] d = 4 -> "4" [] d = 5 -> "5" [] d = 6 -> "6" [] d = 7 -> "7"
      [] d = 8 -> "8" [] d = 9 -> "9"

RECURSIVE IntStr(_)
\* str(n) for an int n >= 0.
IntStr(n) ==
    IF n < 10 THEN <<DigitChar(n)>>
    ELSE Append(IntStr(n \div 10), DigitChar(n % 10))

\* str(x) for an element x of the decoded list: a str is itself, an int its
\* digits (-0 is 0); the text of any other value is never that of a
\* question number and is written "<repr>".
StrOf(x) ==
    CASE x.t = "str" -> x.s
      [] x.t = "number" -> IF x.s = <<"-", "0">> THEN <<"0">> ELSE x.s
      [] OTHER -> <<"<repr>">>

\* The elements a for loop over the decoded value v yields (a dict yields
\* its keys, a str its characters).
Elements(v) ==
    CASE v.t = "list" -> {v.items[i] : i \in 1..Len(v.items)}
      [] v.t = "dict" -> {PyStr(v.items[i].key) : i \in 1..Len(v.items)}
      [] v.t = "str"  -> {PyStr(<<v.s[i]>>) : i \in 1..Len(v.s)}
      [] OTHER        -> {}

\* Iterating over v raises TypeError.
NotIterable(v) == v.t \notin {"list", "dict", "str"}

\* The condition of line 113.
UsesImportance(weighting_result) ==
    /\ Truthy(weighting_result)
    /\ ~InRaises(weighting_result)
    /\ \/ In(Key_important_theses, weighting_result)
       \/ In(Key_important_thesen, weighting_result)

\* important_set of line 116.
ImportantSet(weighting_result) ==
    {StrOf(x) : x \in Elements(Get(NormalizeKey(weighting_result),
                                   Key_important_theses, PyList(<<>>)))}

\* Mutant: the final pass leaves rows of unimportant questions as they are.
WeightOfKeep(row, weighting_result) ==
    IF UsesImportance(weighting_result)
       /\ IntStr(row.question_nr) \in ImportantSet(weighting_result)
    THEN Weight2 ELSE row.weighted

\* Lines 113 to 125: the weight the final pass writes into a row.
WeightOf(row, weighting_result) ==
    IF UsesImportance(weighting_result)
    THEN IF IntStr(row.question_nr) \in ImportantSet(weighting_result)
         THEN Weight2 ELSE Weight1
    ELSE Weight1

\* The final pass over a list of rows.
Reweighted(rows, weighting_result) ==
    [i \in 1..Len(rows) |->
        [rows[i] EXCEPT !.weighted = WeightOf(rows[i], weighting_result)]]

\* The final pass raises: line 113 applies "in" to a number, or line 116
\* iterates over a value that is no list.
WeightPassRaises(weighting_result) ==
    \/ Truthy(weighting_result) /\ InRaises(weighting_result)
    \/ /\ UsesImportance(weighting_result)
       /\ \/ weighting_result.t # "dict"
          \/ NotIterable(Get(NormalizeKey(weighting_result),
                             Key_important_theses, PyList(<<>>)))

(***************************************************************************)
(* What the model may answer                                               *)
(***************************************************************************)

\* {"answer":"Ja","reason":"r"}
Out_Ja ==
    <<"{", "\"", "a", "n", "s", "w", "e", "r", "\"", ":", "\"", "J", "a",
      "\"", ",", "\"", "r", "e", "a", "s", "o", "n", "\"", ":", "\"", "r",
      "\"", "}">>
\* (backquote)(backquote)(backquote)json\n{"answer":" ja","reason":"s"}\n(backquote)(backquote)(backquote)
Out_JaFenced ==
    <<Backquote, Backquote, Backquote, "j", "s", "o", "n", "\n", "{", "\"",
      "a", "n", "s", "w", "e", "r", "\"", ":", "\"", " ", "j", "a", "\"",
      ",", "\"", "r", "e", "a", "s", "o", "n", "\"", ":", "\"", "s", "\"",
      "}", "\n", Backquote, Backquote, Backquote>>
\* {"answer":"nein","reason":"r"}
Out_Nein ==
    <<"{", "\"", "a", "n", "s", "w", "e", "r", "\"", ":", "\"", "n", "e",
      "i", "n", "\"", ",", "\"", "r", "e", "a", "s", "o", "n", "\"", ":",
      "\"", "r", "\"", "}">>
\* {"answer":"neutral","reason":"r"}
Out_Neutral ==
    <<"{", "\"", "a", "n", "s", "w", "e", "r", "\"", ":", "\"", "n", "e",
      "u", "t", "r", "a", "l", "\"", ",", "\"", "r", "e", "a", "s", "o",
      "n", "\"", ":", "\"", "r", "\"", "}">>
\* {"reason":"r"}
Out_NoAnswer ==
    <<"{", "\"", "r", "e", "a", "s", "o", "n", "\"", ":", "\"", "r", "\"",
      "}">>
\* nix
Out_Prose ==
    <<"n", "i", "x">>
\* {"answer":"ja","reason":"r
Out_Truncated ==
    <<"{", "\"", "a", "n", "s", "w", "e", "r", "\"", ":", "\"", "j", "a",
      "\"", ",", "\"", "r", "e", "a", "s", "o", "n", "\"", ":", "\"", "r">>
\* [1]
Out_List ==
    <<"[", "1", "]">>
\* {"answer":1}
Out_AnswerNumber ==
    <<"{", "\"", "a", "n", "s", "w", "e", "r", "\"", ":", "1", "}">>
\* {"important_thesen": [0]}
W_Thesen ==
    <<"{", "\"", "i", "m", "p", "o", "r", "t", "a", "n", "t", "_", "t",
      "h", "e", "s", "e", "n", "\"", ":", " ", "[", "0", "]", "}">>
\* (backquote)(backquote)(backquote)json\n{"important_theses": ["1"]}\n(backquote)(backquote)(backquote)
W_ThesesFenced ==
    <<Backquote, Backquote, Backquote, "j", "s", "o", "n", "\n", "{", "\"",
      "i", "m", "p", "o", "r", "t", "a", "n", "t", "_", "t", "h", "e", "s",
      "e", "s", "\"", ":", " ", "[", "\"", "1", "\"", "]", "}", "\n",
      Backquote, Backquote, Backquote>>
\* Gern: {"important_thesen": []}
W_Empty ==
    <<"G", "e", "r", "n", ":", " ", "{", "\"", "i", "m", "p", "o", "r",
      "t", "a", "n", "t", "_", "t", "h", "e", "s", "e", "n", "\"", ":",
      " ", "[", "]", "}">>
\* keine
W_Prose ==
    <<"k", "e", "i", "n", "e">>
\* {"wichtig": [0]}
W_OtherKey ==
    <<"{", "\"", "w", "i", "c", "h", "t", "i", "g", "\"", ":", " ", "[",
      "0", "]", "}">>
\* {"important_thesen": [0
W_Truncated ==
    <<"{", "\"", "i", "m", "p", "o", "r", "t", "a", "n", "t", "_", "t",
      "h", "e", "s", "e", "n", "\"", ":", " ", "[", "0">>
\* {"important_thesen":[0]} {}
W_TwoObjects ==
    <<"{", "\"", "i", "m", "p", "o", "r", "t", "a", "n", "t", "_", "t",
      "h", "e", "s", "e", "n", "\"", ":", "[", "0", "]", "}", " ", "{", "}">>
\* {"important_thesen": 1}
W_NotAList ==
    <<"{", "\"", "i", "m", "p", "o", "r", "t", "a", "n", "t", "_", "t",
      "h", "e", "s", "e", "n", "\"", ":", " ", "1", "}">>
\* answer.json
AnswerFile ==
    <<[message |-> <<"J", "a">>, id |-> 0],
      [message |-> <<"N", "e", "i", "n">>, id |-> 1],
      [message |-> <<"N", "e", "u", "t", "r", "a", "l">>, id |-> 2]>>

answer_mapping == load_answer_mapping(AnswerFile)

\* ask_model for one thesis: None (the provider failed) or a text.
EvalOutputs ==
    {NoText} \cup {SomeText(t) : t \in {Out_Ja, Out_JaFenced, Out_Nein, Out_Neutral,
                                    Out_NoAnswer, Out_Prose,
                                    Out_Truncated, Out_List, Out_AnswerNumber}}

\* ask_model for the weighting prompt.
WeightOutputs ==
    {NoText} \cup {SomeText(t) : t \in {W_Thesen, W_ThesesFenced, W_Empty, 
                                    W_Prose, W_OtherKey, W_Truncated, W_TwoObjects,
                                    W_NotAList}}

(***************************************************************************)
(* The pipeline: get_weighting_result, then evaluate_statements            *)
(***************************************************************************)

\* max_attempts of get_weighting_result.
max_attempts == 5

\* Most theses in the catalog.
MaxStatements == 3
\* Largest repeat_count.
MaxRepeat == 3
\* Most ask_model calls one evaluate_statements run makes:
\* len(statements) * repeat_count.
MaxCalls == 4

\* The thesis catalog with n theses: ids 0 to n - 1.
Statements(n) == [k \in 1..n |-> [id |-> k - 1]]

\* The runs within the bound: <<number of theses, repeat_count>>.
Runs ==
    {c \in (0..MaxStatements) \X (1..MaxRepeat) : c[1] * c[2] <= MaxCalls}

\* The local variables of evaluate_statements at loop entry; response_text
\* is what the last ask_model call returned, res what
\* evaluate_statement_single made of it.
EvaluateLocals(weighting_result) ==
    [q |-> 1, i |-> 0, responses_for_question |-> <<>>,
     response_text |-> Unset, res |-> Unset,
     weighting_result |-> weighting_result]

\* The local variables of get_weighting_result before the loop.
WeightingLocals == [attempt |-> 0, weighting_response_text |-> Unset]

\* The weighting_result a caller passes who does not ask the model: the
\* default None, or a dict written with the key "important_thesen".
DirectWeightings == {PyNone, robust_json_parse(W_Thesen)}

Init ==
    /\ pc \in {"get_weighting_result", "evaluate_statements"}
    /\ arg \in {[statements |-> Statements(c[1]), repeat_count |-> c[2],
                  weighting_result |-> weighting_result] :
                    c \in Runs,
                    weighting_result \in
                        IF pc = "get_weighting_result" THEN {PyNone}
                        ELSE DirectWeightings}
    /\ locals = IF pc = "get_weighting_result" THEN WeightingLocals
                ELSE EvaluateLocals(arg.weighting_result)
    /\ ret = Unset
    /\ aggregated_results = <<>>
    /\ raw_results = <<>>
    /\ calls = <<>>

\* One iteration of the while loop of get_weighting_result: the call, the
\* try block, and either the break and return or the except clause.
WeightingAttempt ==
    /\ pc = "get_weighting_result"
    /\ locals.attempt < max_attempts
    /\ \E response \in WeightOutputs :
          /\ locals' = [attempt |-> locals.attempt + 1,
                        weighting_response_text |-> response]
          /\ calls' = Append(calls, [prompt |-> "weighting",
                                     attempt |-> locals.attempt + 1])
          /\ \E try \in {WeightingTry(response)} :
                IF try.ok
                THEN /\ pc' = "weighting_returned"
                     /\ ret' = try.value
                ELSE UNCHANGED <<pc, ret>>
    /\ UNCHANGED <<arg, aggregated_results, raw_results>>

\* The else clause of the while loop: no attempt is left.
WeightingFallback ==
    /\ pc = "get_weighting_result"
    /\ ~(locals.attempt < max_attempts)
    /\ ret' = PyDict(<<>>)
    /\ pc' = "weighting_returned"
    /\ UNCHANGED <<arg, locals, aggregated_results, raw_results, calls>>

\* The caller hands the weighting result to evaluate_statements.
CallEvaluate ==
    /\ pc = "weighting_returned"
    /\ pc' = "evaluate_statements"
    /\ arg' = [arg EXCEPT !.weighting_result = ret]
    /\ ret' = Unset
    /\ locals' = EvaluateLocals(ret)
    /\ calls' = <<>>
    /\ UNCHANGED <<aggregated_results, raw_results>>

\* Mutant: the runs are numbered from 0.
RawRowZeroBased(res, q, run_index) ==
    [id |-> res.id, answer |-> res.answer, numeric |-> res.numeric,
     reason |-> res.reason, weighted |-> res.weighted,
     run_index |-> run_index - 1, question_nr |-> q.id]

\* The raw row of one successful run.
RawRow(res, q, run_index) ==
    [id |-> res.id, answer |-> res.answer, numeric |-> res.numeric,
     reason |-> res.reason, weighted |-> res.weighted,
     run_index |-> run_index, question_nr |-> q.id]

\* One iteration of the for loop over the statements with repeat_count == 1.
EvaluateOnce ==
    /\ pc = "evaluate_statements"
    /\ locals.q <= Len(arg.statements)
    /\ arg.repeat_count = 1
    /\ \E response \in EvalOutputs :
       \E q \in {arg.statements[locals.q]} :
       \E res \in {evaluate_statement_single(q, response, answer_mapping)} :
              /\ calls' = Append(calls, [question_nr |-> q.id, run |-> 1])
              /\ IF res.kind = "raise"
                 THEN /\ pc' = "raised"
                      /\ ret' = res
                      /\ locals' = [locals EXCEPT !.response_text = response]
                      /\ UNCHANGED <<aggregated_results, raw_results>>
                 ELSE /\ locals' = [locals EXCEPT !.q = locals.q + 1,
                                                  !.response_text = response,
                                                  !.res = res]
                      /\ UNCHANGED <<pc, ret>>
                      /\ IF res.kind = "None"
                         THEN UNCHANGED <<aggregated_results, raw_results>>
                         ELSE /\ aggregated_results' =
                                    Append(aggregated_results,
                                           [question_nr |-> q.id,
                                            answer      |-> res.answer,
                                            numeric     |-> res.numeric,
                                            reason      |-> res.reason,
                                            weighted    |-> res.weighted])
                              /\ raw_results' =
                                    Append(raw_results,
                                           RawRow(res, q, 1)
                                           @@ [repeat_count |-> 1])
    /\ UNCHANGED arg

\* One iteration of the inner loop, for i in range(repeat_count).
EvaluateRun ==
    /\ pc = "evaluate_statements"
    /\ locals.q <= Len(arg.statements)
    /\ arg.repeat_count # 1
    /\ locals.i < arg.repeat_count
    /\ \E response \in EvalOutputs :
       \E q \in {arg.statements[locals.q]} :
       \E res \in {evaluate_statement_single(q, response, answer_mapping)} :
              /\ calls' = Append(calls, [question_nr |-> q.id,
                                         run |-> locals.i + 1])
              /\ IF res.kind = "raise"
                 THEN /\ pc' = "raised"
                      /\ ret' = res
                      /\ locals' = [locals EXCEPT !.response_text = response]
                      /\ UNCHANGED raw_results
                 ELSE /\ UNCHANGED <<pc, ret>>
                      /\ IF res.kind = "None"
                         THEN /\ locals' = [locals EXCEPT
                                               !.i = locals.i + 1,
                                               !.response_text = response,
                                               !.res = res]
                              /\ UNCHANGED raw_results
                         ELSE /\ raw_results' =
                                    Append(raw_results,
                                           RawRow(res, q, locals.i + 1))
                              /\ locals' =
                                    [locals EXCEPT
                                        !.i = locals.i + 1,
                                        !.response_text = response,
                                        !.res = res,
                                        !.responses_for_question =
                                            Append(@, res)]
    /\ UNCHANGED <<arg, aggregated_results>>

\* The runs of a question are over: its aggregated row is appended.
Aggregate ==
    /\ pc = "evaluate_statements"
    /\ locals.q <= Len(arg.statements)
    /\ arg.repeat_count # 1
    /\ ~(locals.i < arg.repeat_count)
    /\ aggregated_results' =
          aggregated_results \o
          AggregateRows(arg.statements[locals.q],
                        locals.responses_for_question, arg.repeat_count)
    /\ locals' = [locals EXCEPT !.q = locals.q + 1, !.i = 0,
                                !.responses_for_question = <<>>]
    /\ UNCHANGED <<pc, arg, ret, raw_results, calls>>

\* After the loop: the weights are written and the two lists returned.
AssignWeights ==
    /\ pc = "evaluate_statements"
    /\ locals.q > Len(arg.statements)
    /\ IF WeightPassRaises(locals.weighting_result)
       THEN /\ pc' = "raised"
            /\ ret' = Raises("TypeError")
            /\ UNCHANGED <<locals, aggregated_results, raw_results>>
       ELSE /\ pc' = "returned"
            /\ ret' = [kind |-> "tuple"]
            /\ locals' = [locals EXCEPT !.weighting_result =
                             IF UsesImportance(@) THEN NormalizeKey(@) ELSE @]
            /\ aggregated_results' =
                  Reweighted(aggregated_results, locals.weighting_result)
            /\ raw_results' = Reweighted(raw_results, locals.weighting_result)
    /\ UNCHANGED <<arg, calls>>

Next ==
    \/ WeightingAttempt
    \/ WeightingFallback
    \/ CallEvaluate
    \/ EvaluateOnce
    \/ EvaluateRun
    \/ Aggregate
    \/ AssignWeights

Spec == Init /\ [][Next]_vars

(***************************************************************************)
(* Properties of the Single-Question Evaluator (C4, C5)                    *)
(***************************************************************************)

\* evaluate_statements has called ask_model at least once.
Evaluated ==
    /\ pc \in {"evaluate_statements", "returned", "raised"}
    /\ calls # <<>>

\* What the Response Parser makes of a response text.
ParsedResponse(response_text) ==
    robust_json_parse(clean_json_response(response_text.s))

\* The three cases of C4: no text, no JSON object, no "answer" that is a text.
NoUsableAnswer(response_text) ==
    \/ response_text.isNone
    \/ ParsedResponse(response_text).t # "dict"
    \/ ~HasKey(ParsedResponse(response_text), Key_answer)
    \/ Get(ParsedResponse(response_text), Key_answer, PyNone).t # "str"

\* C4 as stated: when the model call returns no text, or the parser recovers
\* no JSON object, or the object has no "answer" usable for normalization,
\* evaluate_statement_single returns None; it neither returns a response
\* row nor raises.
C4_Original ==
    (Evaluated /\ NoUsableAnswer(locals.response_text)) =>
        /\ ~(pc = "raised" /\ ret.exception = "AttributeError")
        /\ locals.res = ReturnsNone

\* C5 as stated: whatever the model answers, evaluate_statement_single,
\* evaluate_statements and get_weighting_result finish without raising.
C5_Original == pc # "raised"

(***************************************************************************)
(* Properties of the Aggregator (C6, C7, C8, C9)                           *)
(***************************************************************************)

\* The rows of a result list that belong to the thesis id.
RowsOf(rows, id) == SelectSeq(rows, LAMBDA r : r.question_nr = id)

\* C6: with repeat_count > 1 the returned aggregated list has exactly one
\* row per thesis, in thesis order; the row of a thesis without a
\* successful run has stance None, empty answer and reason, and a weight.
C6_OneRowPerThesis ==
    (pc = "returned" /\ arg.repeat_count > 1) =>
        /\ Len(aggregated_results) = Len(arg.statements)
        /\ \A k \in 1..Len(arg.statements) :
              /\ aggregated_results[k].question_nr = arg.statements[k].id
              /\ aggregated_results[k].repeat_count = arg.repeat_count
              /\ RowsOf(raw_results, arg.statements[k].id) = <<>> =>
                    /\ aggregated_results[k].numeric = None
                    /\ aggregated_results[k].answer = PyStr(<<>>)
                    /\ aggregated_results[k].reason = PyStr(<<>>)
                    /\ aggregated_results[k].weighted \in {Weight1, Weight2}

\* C6 witness: two theses were run more than once; every run of the first
\* returned None, a run of the second succeeded.
C6_Witness ==
    /\ pc = "returned"
    /\ arg.repeat_count > 1
    /\ Len(arg.statements) = 2
    /\ RowsOf(raw_results, arg.statements[1].id) = <<>>
    /\ RowsOf(raw_results, arg.statements[2].id) # <<>>
    /\ Len(aggregated_results) = 2

\* The thesis ids of a result list, in order.
QuestionNrs(rows) == [k \in 1..Len(rows) |-> rows[k].question_nr]

\* One step of evaluate_statements with repeat_count == 1.
C7_Step ==
    (pc = "evaluate_statements" /\ arg.repeat_count = 1) =>
        IF calls' = calls
        THEN \* the final pass keeps the entries
             /\ QuestionNrs(aggregated_results') = QuestionNrs(aggregated_results)
             /\ QuestionNrs(raw_results') = QuestionNrs(raw_results)
             /\ \A k \in 1..Len(raw_results) :
                   raw_results'[k].run_index = raw_results[k].run_index
        ELSE \* the evaluation of the thesis q
             LET q == arg.statements[locals.q]
             IN  /\ RowsOf(aggregated_results, q.id) = <<>>
                 /\ RowsOf(raw_results, q.id) = <<>>
                 /\ pc' # "raised" =>
                       IF locals'.res = ReturnsNone
                       THEN /\ aggregated_results' = aggregated_results
                            /\ raw_results' = raw_results
                       ELSE /\ Len(aggregated_results') =
                                  Len(aggregated_results) + 1
                            /\ SubSeq(aggregated_results', 1,
                                      Len(aggregated_results)) =
                                  aggregated_results
                            /\ QuestionNrs(aggregated_results')
                                  [Len(aggregated_results')] = q.id
                            /\ Len(raw_results') = Len(raw_results) + 1
                            /\ SubSeq(raw_results', 1, Len(raw_results)) =
                                  raw_results
                            /\ raw_results'[Len(raw_results')].question_nr =
                                  q.id
                            /\ raw_results'[Len(raw_results')].run_index = 1

\* C7: with repeat_count == 1 a thesis whose evaluation returns None gets
\* no entry in either list, and a thesis whose evaluation succeeds gets
\* exactly one entry in each, the raw one with run_index 1; the entries
\* stay until the lists are returned.
C7_SingleRun == [][C7_Step]_vars

\* C7 witness: of three theses evaluated once the second alone succeeded.
C7_Witness ==
    /\ pc = "returned"
    /\ arg.repeat_count = 1
    /\ Len(arg.statements) = 3
    /\ QuestionNrs(aggregated_results) = <<arg.statements[2].id>>
    /\ QuestionNrs(raw_results) = <<arg.statements[2].id>>
    /\ raw_results[1].run_index = 1

\* The stances of the successful runs of thesis id that are not None, in
\* run order.
Stances(id) ==
    LET rows == SelectSeq(RowsOf(raw_results, id), LAMBDA r : r.numeric # None)
    IN  [k \in 1..Len(rows) |-> rows[k].numeric]

\* How often v occurs in seq, and where first.
Count(seq, v) == Cardinality({k \in 1..Len(seq) : seq[k] = v})
FirstAt(seq, v) == Min({k \in 1..Len(seq) : seq[k] = v})

\* v has the highest count in seq and, among the values with that count,
\* the earliest first occurrence.
IsWinner(seq, v) ==
    /\ Count(seq, v) > 0
    /\ \A k \in 1..Len(seq) :
          \/ Count(seq, seq[k]) < Count(seq, v)
          \/ /\ Count(seq, seq[k]) = Count(seq, v)
             /\ FirstAt(seq, v) <= FirstAt(seq, seq[k])

\* C8: with repeat_count > 1 the aggregated stance of a thesis is the most
\* frequent stance that is not None among its successful runs, ties going
\* to the stance seen first in run order.
C8_MajorityFirstSeen ==
    (arg.repeat_count > 1 /\ pc \in {"evaluate_statements", "returned", "raised"}) =>
        \A k \in 1..Len(aggregated_results) :
            LET stances == Stances(aggregated_results[k].question_nr)
            IN  IF stances = <<>>
                THEN aggregated_results[k].numeric = None
                ELSE IsWinner(stances, aggregated_results[k].numeric)

\* C8 witness: the runs of a thesis gave the stances 0, 2, 1 and the
\* aggregated stance is 0.
C8_Witness ==
    /\ arg.repeat_count > 1
    /\ \E k \in 1..Len(aggregated_results) :
          /\ Stances(aggregated_results[k].question_nr) = <<0, 2, 1>>
          /\ aggregated_results[k].numeric = 0

\* The importance list of a weighting result: the list under
\* "important_theses", else the one under "important_thesen", else empty.
ImportanceList(w) ==
    IF w.t # "dict" THEN <<>>
    ELSE IF HasKey(w, Key_important_theses)
    THEN Get(w, Key_important_theses, PyNone).items
    ELSE IF HasKey(w, Key_important_thesen)
    THEN Get(w, Key_important_thesen, PyNone).items
    ELSE <<>>

\* The thesis id is in the importance set of w, written as a number or as
\* a text.
IsImportant(id, w) ==
    \E k \in 1..Len(ImportanceList(w)) :
        /\ ImportanceList(w)[k].t \in {"number", "str"}
        /\ ImportanceList(w)[k].s = IntStr(id)

\* C9: in the returned lists every row has weight 2 if its thesis id is in
\* the importance set (under either key) and weight 1 otherwise; no row
\* keeps the placeholder.
C9_WeightsAssigned ==
    pc = "returned" =>
        /\ \A k \in 1..Len(aggregated_results) :
              aggregated_results[k].weighted =
                  IF IsImportant(aggregated_results[k].question_nr,
                                 arg.weighting_result)
                  THEN Weight2 ELSE Weight1
        /\ \A k \in 1..Len(raw_results) :
              raw_results[k].weighted =
                  IF IsImportant(raw_results[k].question_nr,
                                 arg.weighting_result)
                  THEN Weight2 ELSE Weight1

\* C9 witness: the caller passed the key "important_thesen"; the returned
\* lists hold an important thesis and an unimportant one.
C9_Witness ==
    /\ pc = "returned"
    /\ HasKey(arg.weighting_result, Key_important_thesen)
    /\ \E j, k \in 1..Len(aggregated_results) :
          /\ aggregated_results[j].weighted = Weight2
          /\ aggregated_results[k].weighted = Weight1
    /\ \E j, k \in 1..Len(raw_results) :
          /\ raw_results[j].weighted = Weight2
          /\ raw_results[k].weighted = Weight1

(***************************************************************************)
(* Properties of the Importance Weighter (C10)                             *)
(***************************************************************************)

\* The object one attempt parses out of the response (None if there is
\* none).
WeightingParsed(response_text) ==
    IF response_text.isNone THEN PyNone
    ELSE IF GreedyBraces(clean_json_response(response_text.s)).isNone
    THEN PyNone
    ELSE robust_json_parse(GreedyBraces(clean_json_response(response_text.s)).s)

\* The parsed response holds one of the two accepted keys.
HasImportanceKey(v) ==
    /\ v.t = "dict"
    /\ HasKey(v, Key_important_theses) \/ HasKey(v, Key_important_thesen)

\* C10: get_weighting_result calls the model at most 5 times; it goes on
\* only after an attempt without an accepted key, returns the object of the
\* first attempt with one (the list under "important_theses"), and returns
\* the empty dict once 5 attempts have failed.
C10_AtMostFiveAttempts ==
    /\ pc \in {"get_weighting_result", "weighting_returned"} =>
          /\ Len(calls) <= 5
          /\ locals.attempt = Len(calls)
          /\ \A k \in 1..Len(calls) :
                calls[k] = [prompt |-> "weighting", attempt |-> k]
    /\ (pc = "get_weighting_result" /\ calls # <<>>) =>
          ~HasImportanceKey(WeightingParsed(locals.weighting_response_text))
    /\ pc = "weighting_returned" =>
          LET parsed == WeightingParsed(locals.weighting_response_text)
          IN  IF HasImportanceKey(parsed)
              THEN /\ ret.t = "dict"
                   /\ HasKey(ret, Key_important_theses)
                   /\ Get(ret, Key_important_theses, PyNone) =
                         IF HasKey(parsed, Key_important_theses)
                         THEN Get(parsed, Key_important_theses, PyNone)
                         ELSE Get(parsed, Key_important_thesen, PyNone)
              ELSE /\ Len(calls) = 5
                   /\ ret = PyDict(<<>>)

\* C10 witness: the third attempt is the first to bring an object with the
\* key "important_thesen"; it is returned under "important_theses".
C10_Witness ==
    /\ pc = "weighting_returned"
    /\ Len(calls) = 3
    /\ HasKey(WeightingParsed(locals.weighting_response_text),
              Key_important_thesen)
    /\ HasKey(ret, Key_important_theses)
    /\ ~HasKey(ret, Key_important_thesen)

(***************************************************************************)
(* Scorer: compute_statement_score and compute_agreement_scores            *)
(***************************************************************************)

\* Mutant: the table read with 1 as the neutral stance (0 against 2 and any
\* stance against 1 give one point).
ScoreLookupNeutralOne ==
    (<<0, 0>> :> 2) @@ (<<0, 2>> :> 1) @@ (<<0, 1>> :> 1) @@
    (<<2, 0>> :> 1) @@ (<<2, 2>> :> 2) @@ (<<2, 1>> :> 1) @@
    (<<1, 0>> :> 1) @@ (<<1, 2>> :> 1) @@ (<<1, 1>> :> 2)

\* The module-level dict SCORE_LOOKUP, keyed by (model stance, party stance).
SCORE_LOOKUP ==
    (<<0, 0>> :> 2) @@ (<<0, 2>> :> 1) @@ (<<0, 1>> :> 0) @@
    (<<2, 0>> :> 1) @@ (<<2, 2>> :> 2) @@ (<<2, 1>> :> 1) @@
    (<<1, 0>> :> 0) @@ (<<1, 2>> :> 1) @@ (<<1, 1>> :> 2)

\* Mutant: the weighted flag is ignored.
ScoreIgnoreWeight(user_val, party_val, weighted) ==
    IF <<user_val, party_val>> \in DOMAIN SCORE_LOOKUP
    THEN SCORE_LOOKUP[<<user_val, party_val>>] ELSE 0

\* compute_statement_score as bound at import time (the second definition
\* of that name): SCORE_LOOKUP.get((user_val, party_val), 0), doubled when
\* weighted.
compute_statement_score(user_val, party_val, weighted) ==
    LET base == IF <<user_val, party_val>> \in DOMAIN SCORE_LOOKUP
                THEN SCORE_LOOKUP[<<user_val, party_val>>] ELSE 0
    IN  base * (IF weighted THEN 2 ELSE 1)

\* Mutant: the maximum is not doubled for a weighted thesis.
MaxScoreUnweighted(weighted) == 2

max_score_for_statement(weighted) == 2 * (IF weighted THEN 2 ELSE 1)

\* The weighted_series argument: None (the default) or a series of flags.
NoSeries == [given |-> FALSE]

Series(values) == [given |-> TRUE, values |-> values]

\* pd.Series([0] * n_statements) when weighted_series is None.
WeightedSeries(weighted_series, n_statements) ==
    IF weighted_series.given THEN weighted_series.values
    ELSE [stmt \in 1..n_statements |-> 0]

\* Mutant: the totals of the previous call are taken up again.
KeepTotals(columns) ==
    IF DOMAIN locals = {"party_scores", "party_max"}
       /\ Len(locals.party_scores) = Len(columns)
    THEN locals
    ELSE [party_scores |-> [party \in 1..Len(columns) |-> 0],
          party_max    |-> [party \in 1..Len(columns) |-> 0]]

\* party_scores and party_max before the loop: 0 for every party.
FreshTotals(columns) ==
    [party_scores |-> [party \in 1..Len(columns) |-> 0],
     party_max    |-> [party \in 1..Len(columns) |-> 0]]

\* One iteration of the loop over party_df.index.  int() of a missing model
\* response raises and the thesis is skipped; a party without a position
\* on the thesis is skipped.
ScoreStatement(totals, party_df, model_df, weighted_series, stmt) ==
    IF model_df[stmt] = None THEN totals
    ELSE
    LET user_val     == model_df[stmt]
        is_weighted  == weighted_series[stmt] # 0
        max_for_stmt == max_score_for_statement(is_weighted)
        Has(party)   == party_df.rows[stmt][party] # None
    IN  [party_scores |->
            [party \in 1..Len(party_df.columns) |->
                IF Has(party)
                THEN totals.party_scores[party]
                     + compute_statement_score(user_val,
                                               party_df.rows[stmt][party],
                                               is_weighted)
                ELSE totals.party_scores[party]],
         party_max |->
            [party \in 1..Len(party_df.columns) |->
                IF Has(party) THEN totals.party_max[party] + max_for_stmt
                ELSE totals.party_max[party]]]

RECURSIVE ScoreLoop(_, _, _, _, _)
\* for stmt in party_df.index
ScoreLoop(totals, party_df, model_df, weighted_series, stmt) ==
    IF stmt > Len(party_df.rows) THEN totals
    ELSE ScoreLoop(ScoreStatement(totals, party_df, model_df,
                                  weighted_series, stmt),
                   party_df, model_df, weighted_series, stmt + 1)

\* Mutant: the quotient is formed whatever the maximum is.
PercentageUnguarded(total, maximum) ==
    [num |-> total * 100, den |-> maximum]

\* (total / maximum * 100) if maximum > 0 else 0, kept as the fraction
\* num / den (the rounding of the float division is left out).
Percentage(total, maximum) ==
    IF maximum > 0 THEN [num |-> total * 100, den |-> maximum]
    ELSE [num |-> 0, den |-> 1]

\* result_list: one row per party, in column order.
ResultList(columns, totals) ==
    [party \in 1..Len(columns) |->
        [party      |-> columns[party],
         points     |-> totals.party_scores[party],
         max_points |-> totals.party_max[party],
         percentage |-> Percentage(totals.party_scores[party],
                                   totals.party_max[party])]]

\* compute_agreement_scores(party_df, model_df, weighted_series): the rows
\* returned and the two accumulators as the loop leaves them.
compute_agreement_scores(party_df, model_df, weighted_series) ==
    LET n_statements == Len(party_df.rows)
        totals == ScoreLoop(FreshTotals(party_df.columns), party_df, model_df,
                            WeightedSeries(weighted_series, n_statements), 1)
    IN  [rows |-> ResultList(party_df.columns, totals), totals |-> totals]

\* Bounds of the scoring inputs: theses times parties, and the largest flag
\* in a weighted_series (0 and 1 are the flags of the results file, 1 and 2
\* the weights evaluate_statements assigns).
MaxCells == 2

MaxFlag == 2

Parties == <<"X", "Y">>

StanceOrNull == {None, 0, 1, 2}

Shapes == {c \in (1..MaxCells) \X (1..Len(Parties)) : c[1] * c[2] <= MaxCells}

ScoreInputsOf(n, parties) ==
    [party_df : [columns : {SubSeq(Parties, 1, parties)},
                 rows : [1..n -> [1..parties -> StanceOrNull]]],
     model_df : [1..n -> StanceOrNull],
     weighted_series : {NoSeries} \cup {Series(w) : w \in [1..n -> 0..MaxFlag]}]

ScoreInputs == UNION {ScoreInputsOf(c[1], c[2]) : c \in Shapes}

InitScore ==
    /\ pc = "compute_agreement_scores"
    /\ arg \in ScoreInputs
    /\ ret = Unset
    /\ PipelineIdle

\* One call of compute_agreement_scores on the inputs in arg.
Score ==
    /\ pc = "compute_agreement_scores"
    /\ \E result \in {compute_agreement_scores(arg.party_df, arg.model_df,
                                               arg.weighted_series)} :
          /\ ret' = result.rows
          /\ locals' = result.totals
    /\ pc' = "scored"
    /\ UNCHANGED <<arg, aggregated_results, raw_results, calls>>

SpecScore == InitScore /\ [][Score]_vars

(***************************************************************************)
(* Properties of the scorer                                                *)
(***************************************************************************)

Scored == pc = "scored"

\* The flag the call reads for thesis stmt, and whether it is truthy.
FlagOf(stmt) ==
    WeightedSeries(arg.weighted_series, Len(arg.party_df.rows))[stmt]

IsWeighted(stmt) == FlagOf(stmt) # 0

OneThesis == Len(arg.party_df.rows) = 1

PartyIds == 1..Len(arg.party_df.columns)

\* A (thesis, party) pair that is scored: both stances are there.
Counted(stmt, party) ==
    /\ arg.model_df[stmt] # None
    /\ arg.party_df.rows[stmt][party] # None

\* The table as the claim writes it out.
LiteralTable(m, p) ==
    CASE m = 0 /\ p = 0 -> 2
      [] m = 0 /\ p = 2 -> 1
      [] m = 0 /\ p = 1 -> 0
      [] m = 2 /\ p = 0 -> 1
      [] m = 2 /\ p = 2 -> 2
      [] m = 2 /\ p = 1 -> 1
      [] m = 1 /\ p = 0 -> 0
      [] m = 1 /\ p = 2 -> 1
      [] m = 1 /\ p = 1 -> 2

\* C11: for model and party stances in {0,1,2}, the score of a thesis is the
\* value of the literal table when the thesis is unweighted and twice that
\* value when it is weighted (read off the points of a one-thesis call).
C11_LiteralTable ==
    (Scored /\ OneThesis) =>
        \A party \in PartyIds :
            Counted(1, party) =>
                ret[party].points =
                    LiteralTable(arg.model_df[1], arg.party_df.rows[1][party])
                    * (IF IsWeighted(1) THEN 2 ELSE 1)

\* A weighted thesis with stances 2 and 1 was scored with 2 points.
C11_Witness ==
    /\ Scored
    /\ OneThesis
    /\ arg.model_df[1] = 2
    /\ arg.party_df.rows[1][1] = 1
    /\ IsWeighted(1)
    /\ ret[1].points = 2

\* An unweighted one-thesis call in which the party's pair is scored.
UnweightedPair(party) ==
    /\ Scored
    /\ OneThesis
    /\ ~IsWeighted(1)
    /\ Counted(1, party)

\* C12 as stated: identical stances score 2, a pair with exactly one stance
\* equal to 1 scores 1, and the pair 0 against 2 scores 1.
C12_Original ==
    \A party \in PartyIds :
        UnweightedPair(party) =>
            LET m == arg.model_df[1]
                p == arg.party_df.rows[1][party]
            IN  /\ (m = p) => ret[party].points = 2
                /\ ((m = 1) # (p = 1)) => ret[party].points = 1
                /\ ({m, p} = {0, 2}) => ret[party].points = 1

\* C12, amended: identical stances score 2, a pair with exactly one stance
\* equal to 2 (the neutral value of the table) scores 1, and the opposite
\* stances 0 and 1 score 0.
C12_NeutralIsTwo ==
    \A party \in PartyIds :
        UnweightedPair(party) =>
            LET m == arg.model_df[1]
                p == arg.party_df.rows[1][party]
            IN  /\ (m = p) => ret[party].points = 2
                /\ ((m = 2) # (p = 2)) => ret[party].points = 1
                /\ ({m, p} = {0, 1}) => ret[party].points = 0

\* The opposite stances 0 and 1 were scored, unweighted, with 0 points.
C12_Witness ==
    /\ UnweightedPair(1)
    /\ arg.model_df[1] = 0
    /\ arg.party_df.rows[1][1] = 1
    /\ ret[1].points = 0

RECURSIVE MaxOwed(_, _)
\* What the theses 1..stmt owe to the maximum of a party: 2 for an
\* unweighted and 4 for a weighted thesis on which both stances are there.
MaxOwed(party, stmt) ==
    IF stmt = 0 THEN 0
    ELSE MaxOwed(party, stmt - 1)
         + (IF Counted(stmt, party)
            THEN (IF IsWeighted(stmt) THEN 4 ELSE 2) ELSE 0)

RECURSIVE PointsOwed(_, _)
\* What the theses 1..stmt owe to the points of a party: the table value,
\* doubled for a weighted thesis, where both stances are there.
PointsOwed(party, stmt) ==
    IF stmt = 0 THEN 0
    ELSE PointsOwed(party, stmt - 1)
         + (IF Counted(stmt, party)
            THEN LiteralTable(arg.model_df[stmt],
                              arg.party_df.rows[stmt][party])
                 * (IF IsWeighted(stmt) THEN 2 ELSE 1)
            ELSE 0)

\* C13: a thesis with a model stance adds 2 (unweighted) or 4 (weighted) to
\* the max_points of every party with a position on it, whatever the
\* stances; a thesis without model stance and a pair without party position
\* add nothing to points and max_points.
C13_MaxPerThesis ==
    Scored =>
        \A party \in PartyIds :
            /\ ret[party].max_points
                   = MaxOwed(party, Len(arg.party_df.rows))
            /\ ret[party].points
                   = PointsOwed(party, Len(arg.party_df.rows))

\* Two theses, the first without model stance, the second weighted with
\* opposite stances: party 1 has 0 of 4 points.
C13_Witness ==
    /\ Scored
    /\ Len(arg.party_df.rows) = 2
    /\ arg.model_df[1] = None
    /\ arg.party_df.rows[1][1] # None
    /\ arg.model_df[2] = 0
    /\ arg.party_df.rows[2][1] = 1
    /\ IsWeighted(2)
    /\ ret[1].points = 0
    /\ ret[1].max_points = 4

\* The call of the end-to-end example: two theses with the weights 2 and 1
\* of evaluate_statements, model stances 0 and 2, party X stances 0 and 2.
ExampleCall ==
    /\ arg.party_df = [columns |-> <<"X">>, rows |-> <<(<<0>>), (<<2>>)>>]
    /\ arg.model_df = <<0, 2>>
    /\ arg.weighted_series = Series(<<2, 1>>)

\* C14 as stated: the example call yields, for party X, points = 6,
\* max_points = 6 and percentage = 100.
C14_Original ==
    (Scored /\ ExampleCall) =>
        /\ ret[1].points = 6
        /\ ret[1].max_points = 6
        /\ ret[1].percentage.num = 100 * ret[1].percentage.den

\* C15: every returned row has 0 <= points <= max_points; its percentage
\* is 0 when max_points is 0 and points / max_points * 100 otherwise, which
\* lies between 0 and 100.
C15_RowBounds ==
    Scored =>
        \A party \in PartyIds :
            LET row == ret[party]
            IN  /\ 0 <= row.points
                /\ row.points <= row.max_points
                /\ row.percentage.den > 0
                /\ row.max_points = 0 => row.percentage.num = 0
                /\ row.max_points > 0 =>
                       /\ row.percentage.num * row.max_points
                              = row.points * 100 * row.percentage.den
                       /\ 0 <= row.percentage.num
                       /\ row.percentage.num <= 100 * row.percentage.den

\* A call returned one row with max_points 0 and percentage 0 and another
\* row with 1 of 2 points, 50 percent.
C15_Witness ==
    /\ Scored
    /\ Len(ret) = 2
    /\ ret[1].max_points = 0
    /\ ret[1].percentage.num = 0
    /\ ret[2].points = 1
    /\ ret[2].max_points = 2
    /\ ret[2].percentage.num * 2 = 100 * ret[2].percentage.den

(***************************************************************************)
(* Repeated scoring                                                        *)
(***************************************************************************)

\* Bounds: the size of the inputs of the first call and the number of calls.
MaxRescoreCells == 1

MaxScoreCalls == 3

RescoreShapes ==
    {c \in (1..MaxRescoreCells) \X (1..Len(Parties)) :
        c[1] * c[2] <= MaxRescoreCells}

RescoreInputs == UNION {ScoreInputsOf(c[1], c[2]) : c \in RescoreShapes}

\* Inputs of the calls made in between: the example call, a call with two
\* parties, and a call without weighted_series.
ScoreProbes ==
    {[party_df |-> [columns |-> <<"X">>, rows |-> <<(<<0>>), (<<2>>)>>],
      model_df |-> <<0, 2>>,
      weighted_series |-> Series(<<2, 1>>)],
     [party_df |-> [columns |-> <<"X", "Y">>, rows |-> <<(<<1, 2>>)>>],
      model_df |-> <<1>>,
      weighted_series |-> Series(<<1>>)],
     [party_df |-> [columns |-> <<"X">>, rows |-> <<(<<None>>)>>],
      model_df |-> <<2>>,
      weighted_series |-> NoSeries]}

InitRescore ==
    /\ pc = "compute_agreement_scores"
    /\ arg \in RescoreInputs
    /\ ret = Unset
    /\ PipelineIdle

\* The inputs of the first call of the behaviour.
FirstArg == IF calls = <<>> THEN arg ELSE calls[1].arg

\* The caller keeps the rows of the call that returned and calls
\* compute_agreement_scores again, on the inputs of the first call or on
\* other inputs.
ScoreAgain ==
    /\ pc = "scored"
    /\ Len(calls) + 1 < MaxScoreCalls
    /\ calls' = Append(calls, [arg |-> arg, rows |-> ret])
    /\ arg' \in {FirstArg} \cup ScoreProbes
    /\ ret' = Unset
    /\ pc' = "compute_agreement_scores"
    /\ UNCHANGED <<locals, aggregated_results, raw_results>>

SpecRescore == InitRescore /\ [][Score \/ ScoreAgain]_vars

\* The rows of every earlier call on the inputs of the call that returned
\* are the rows it returned.
SameRows ==
    Scored =>
        \A k \in 1..Len(calls) :
            calls[k].arg = arg => calls[k].rows = ret

\* A call under way leaves its inputs as they are.
InputsKept == (pc = "compute_agreement_scores") => arg' = arg

RunsWith(id, numeric) ==
    SelectSeq(RowsOf(raw_results, id), LAMBDA r : r.numeric = numeric)

ExpectedCalls ==
    [k \in 1..(Len(arg.statements) * arg.repeat_count) |->
        [question_nr |-> arg.statements[((k - 1) \div arg.repeat_count) + 1].id,
         run         |-> ((k - 1) % arg.repeat_count) + 1]]

\* The position of the thesis id in the catalog.
PositionOf(id) == Min({k \in 1..Len(arg.statements) : arg.statements[k].id = id})

\* The calls made so far are the first of the expected calls, all of them
\* once the function returned; the raw rows are grouped by thesis in catalog
\* order with run indexes in 1..repeat_count that increase within a thesis.
CallsInOrder ==
    (pc \in {"evaluate_statements", "returned", "raised"}) =>
        /\ Len(calls) <= Len(ExpectedCalls)
        /\ calls = SubSeq(ExpectedCalls, 1, Len(calls))
        /\ pc = "returned" => calls = ExpectedCalls
        /\ \A k \in 1..Len(raw_results) :
              /\ raw_results[k].run_index \in 1..arg.repeat_count
              /\ \E c \in 1..Len(calls) :
                    /\ calls[c].question_nr = raw_results[k].question_nr
                    /\ calls[c].run = raw_results[k].run_index
        /\ \A k \in 1..(Len(raw_results) - 1) :
              \/ PositionOf(raw_results[k].question_nr)
                    < PositionOf(raw_results[k + 1].question_nr)
              \/ /\ raw_results[k].question_nr = raw_results[k + 1].question_nr
                 /\ raw_results[k].run_index < raw_results[k + 1].run_index

\* A step of evaluate_statements that makes a model call appends one raw
\* row, carrying the thesis and the run number of the call, when the run
\* succeeded, and none otherwise; a step without call appends none.
RunKept ==
    (pc = "evaluate_statements") =>
        IF calls' # calls
        THEN LET call == calls'[Len(calls')]
             IN  /\ calls' = Append(calls, call)
                 /\ IF pc' # "raised" /\ locals'.res.kind = "dict"
                    THEN /\ Len(raw_results') = Len(raw_results) + 1
                         /\ SubSeq(raw_results', 1, Len(raw_results))
                               = raw_results
                         /\ LET r == raw_results'[Len(raw_results')]
                            IN  /\ r.question_nr = call.question_nr
                                /\ r.run_index = call.run
                                /\ r.answer = locals'.res.answer
                                /\ r.numeric = locals'.res.numeric
                    ELSE raw_results' = raw_results
        ELSE /\ QuestionNrs(raw_results') = QuestionNrs(raw_results)
             /\ \A k \in 1..Len(raw_results) :
                   raw_results'[k].run_index = raw_results[k].run_index

\* C19: evaluate_statements makes len(statements) * repeat_count model
\* calls, one after another, all runs of a thesis before the next thesis;
\* the raw results keep exactly the successful runs, grouped by thesis in
\* catalog order, with run indexes in 1..repeat_count that increase within
\* a thesis and are the positions of the runs among the thesis's calls.
C19_CallsAndRawRows == [](CallsInOrder) /\ [][RunKept]_vars

\* Two theses, two runs each: four calls were made and the raw results
\* hold the second run of the first and the first run of the second thesis.
C19_Witness ==
    /\ pc = "returned"
    /\ arg.repeat_count = 2
    /\ Len(arg.statements) = 2
    /\ Len(calls) = 4
    /\ QuestionNrs(raw_results)
          = <<arg.statements[1].id, arg.statements[2].id>>
    /\ raw_results[1].run_index = 2
    /\ raw_results[2].run_index = 1

\* The stances of the mapping phrases contained in the answer text, read
\* without regard to case and to surrounding blanks.
MatchedStances(answer) ==
    {answer_mapping[i].value :
        i \in {j \in 1..Len(answer_mapping) :
                  IsSubstring(answer_mapping[j].key, Strip(Lower(answer.s)))}}

\* C20: a raw row has the stance None exactly when no mapping phrase
\* matched its answer, and otherwise the stance of a matching phrase; with
\* repeat_count > 1 the aggregated stance of a thesis is None exactly when
\* no successful run of the thesis has a stance, and otherwise a value in
\* {0,1,2} that one of its runs has.
C20_NullPreserved ==
    (pc \in {"evaluate_statements", "returned", "raised"}) =>
        /\ \A k \in 1..Len(raw_results) :
              /\ raw_results[k].numeric = None
                    <=> MatchedStances(raw_results[k].answer) = {}
              /\ raw_results[k].numeric # None =>
                    raw_results[k].numeric
                        \in MatchedStances(raw_results[k].answer)
        /\ arg.repeat_count > 1 =>
              \A k \in 1..Len(aggregated_results) :
                 LET row  == aggregated_results[k]
                     runs == RowsOf(raw_results, row.question_nr)
                 IN  /\ row.numeric = None
                           <=> \A r \in 1..Len(runs) : runs[r].numeric = None
                     /\ row.numeric # None =>
                           /\ row.numeric \in {0, 1, 2}
                           /\ \E r \in 1..Len(runs) :
                                 runs[r].numeric = row.numeric

\* Both runs of one thesis succeeded without stance and its aggregated
\* stance is None; another thesis has the stance of one of its runs.
C20_Witness ==
    /\ pc = "returned"
    /\ arg.repeat_count = 2
    /\ Len(aggregated_results) = 2
    /\ Len(RowsOf(raw_results, aggregated_results[1].question_nr)) = 2
    /\ \A r \in 1..2 :
          RowsOf(raw_results, aggregated_results[1].question_nr)[r].numeric
              = None
    /\ aggregated_results[1].numeric = None
    /\ aggregated_results[2].numeric = 1
    /\ Len(RowsOf(raw_results, aggregated_results[2].question_nr)) = 1

(***************************************************************************)
(* ask_ollama_stream                                                       *)
(***************************************************************************)

RECURSIVE Join(_)
\* ''.join(collected_tokens)
Join(collected_tokens) ==
    IF collected_tokens = <<>> THEN <<>>
    ELSE Head(collected_tokens) \o Join(Tail(collected_tokens))

\* Lines 62 to 66: the first balanced block of full_text when it parses to
\* a value with the keys "answer" and "reason", else None.
CompleteJson(full_text) ==
    Assign(extract_first_json(full_text), LAMBDA candidate :
        IF candidate.isNone THEN NoText
        ELSE Assign(robust_json_parse(candidate.s), LAMBDA parsed :
                IF /\ parsed # PyNone
                   /\ In(Key_answer, parsed)
                   /\ In(Key_reason, parsed)
                THEN candidate ELSE NoText))

\* "answer"
Pat_answer ==
    <<"\"", "a", "n", "s", "w", "e", "r", "\"">>

\* "reason"
Pat_reason ==
    <<"\"", "r", "e", "a", "s", "o", "n", "\"">>

\* Where the group of the pattern  name \s* : \s* "  starts in text when the
\* pattern is matched at position i, 0 when it is not.
GroupStart(text, name, i) ==
    IF Slice(text, i, Len(name)) # name THEN 0
    ELSE LET colon == SkipWs(text, i + Len(name))
             quote == SkipWs(text, colon + 1)
         IN  IF At(text, colon) = ":" /\ At(text, quote) = "\""
             THEN quote + 1 ELSE 0

\* re.search of that pattern: the start of the group of the leftmost
\* match, 0 without match.
SearchGroup(text, name) ==
    LET at == {i \in 1..Len(text) : GroupStart(text, name, i) # 0}
    IN  IF at = {} THEN 0 ELSE GroupStart(text, name, Min(at))

\* The group (?P<answer>[^"]*): up to the next double quote or the end.
AnswerGroup(text, from) ==
    LET quotes == {i \in from..Len(text) : text[i] = "\""}
    IN  SubSeq(text, from, IF quotes = {} THEN Len(text) ELSE Min(quotes) - 1)

\* The escape json.dumps writes for a character of a string.
EscapeChar(c) ==
    CASE c = "\"" -> <<"\\", "\"">>
      [] c = "\\" -> <<"\\", "\\">>
      [] c = "\n" -> <<"\\", "n">>
      [] c = "\r" -> <<"\\", "r">>
      [] c = "\t" -> <<"\\", "t">>
      [] OTHER    -> <<c>>

RECURSIVE Escaped(_)
Escaped(chars) ==
    IF chars = <<>> THEN <<>>
    ELSE EscapeChar(Head(chars)) \o Escaped(Tail(chars))

\* json.dumps({"answer": answer_val, "reason": reason_val},
\* ensure_ascii=False)
DumpFallback(answer_val, reason_val) ==
    <<"{", "\"", "a", "n", "s", "w", "e", "r", "\"", ":", " ", "\"">>
    \o Escaped(answer_val)
    \o <<"\"", ",", " ", "\"", "r", "e", "a", "s", "o", "n", "\"", ":", " ",
         "\"">>
    \o Escaped(reason_val)
    \o <<"\"", "}">>

\* Lines 85 to 91: the fallback built from the stripped text by the two
\* searches.
Fallback(full_text) ==
    LET answer_match == SearchGroup(full_text, Pat_answer)
        reason_match == SearchGroup(full_text, Pat_reason)
        answer_val   == IF answer_match # 0
                        THEN AnswerGroup(full_text, answer_match) ELSE <<>>
        reason_val   == IF reason_match # 0
                        THEN Strip(SubSeq(full_text, reason_match,
                                          Len(full_text)))
                        ELSE <<>>
    IN  DumpFallback(answer_val, reason_val)

\* Mutant: the test for '{' is made on the text as accumulated, and that
\* text is returned as it is.
StreamResultNoStrip(collected_tokens, candidate_json) ==
    IF ~candidate_json.isNone /\ candidate_json.s # <<>> THEN candidate_json
    ELSE IF StartsWith(Join(collected_tokens), <<"{">>)
    THEN SomeText(Fallback(Strip(Join(collected_tokens))))
    ELSE SomeText(Join(collected_tokens))

\* Lines 77 to 94: what the function returns after the loop.
StreamResult(collected_tokens, candidate_json) ==
    IF ~candidate_json.isNone /\ candidate_json.s # <<>> THEN candidate_json
    ELSE Assign(Strip(Join(collected_tokens)), LAMBDA full_text :
            IF StartsWith(full_text, <<"{">>)
            THEN SomeText(Fallback(full_text))
            ELSE SomeText(full_text))

\* Bounds: the fragments a stream yields at most, the largest max_tokens,
\* and the length of the longest text a stream adds up to.
MaxFragments == 3

MaxBudget == 3

MaxStreamLen == 32

\* {"answer":"ja",
T_Open ==
    <<"{", "\"", "a", "n", "s", "w", "e", "r", "\"", ":", "\"", "j", "a",
      "\"", ",">>

\* "reason":"r"}
T_Close ==
    <<"\"", "r", "e", "a", "s", "o", "n", "\"", ":", "\"", "r", "\"", "}">>

\* {"reason":"r"}
T_ReasonOnly ==
    <<"{", "\"", "r", "e", "a", "s", "o", "n", "\"", ":", "\"", "r", "\"",
      "}">>

\* {"answer":"a\"b
T_Escape ==
    <<"{", "\"", "a", "n", "s", "w", "e", "r", "\"", ":", "\"", "a", "\\",
      "\"", "b">>

T_Space == <<" ">>

T_Prose == <<"o", "k">>

\* The fragments the stream yields.
Fragments == {T_Open, T_Close, T_ReasonOnly, T_Escape, T_Space, T_Prose}

InitStream ==
    /\ pc = "ask_ollama_stream"
    /\ arg \in [max_tokens : {None} \cup (0..MaxBudget)]
    /\ ret = Unset
    /\ locals = [collected_tokens |-> <<>>, token_count |-> 0,
                 candidate_json |-> NoText]
    /\ aggregated_results = <<>>
    /\ raw_results = <<>>
    /\ calls = <<>>

\* One iteration of the for loop over the stream: the fragment is
\* collected; the loop is left when the text holds the complete JSON or
\* the limit is reached.
Consume ==
    /\ pc = "ask_ollama_stream"
    /\ locals.token_count < MaxFragments
    /\ \E token_str \in Fragments :
       \E collected_tokens \in {Append(locals.collected_tokens, token_str)} :
          /\ Len(Join(collected_tokens)) <= MaxStreamLen
          /\ \E candidate_json \in {CompleteJson(Join(collected_tokens))} :
                /\ locals' = [collected_tokens |-> collected_tokens,
                              token_count |-> locals.token_count + 1,
                              candidate_json |-> candidate_json]
                /\ pc' = IF ~candidate_json.isNone THEN "stream_closed"
                         ELSE IF arg.max_tokens # None
                                 /\ locals.token_count + 1 >= arg.max_tokens
                         THEN "stream_closed"
                         ELSE "ask_ollama_stream"
    /\ UNCHANGED <<arg, ret, aggregated_results, raw_results, calls>>

\* The stream has no further fragment: the loop ends.
StreamEnds ==
    /\ pc = "ask_ollama_stream"
    /\ pc' = "stream_closed"
    /\ UNCHANGED <<arg, ret, pipeline>>

\* ollama.generate or the iteration raises: the except clause returns None.
StreamRaises ==
    /\ pc = "ask_ollama_stream"
    /\ pc' = "stream_failed"
    /\ ret' = NoText
    /\ UNCHANGED <<arg, pipeline>>

\* After the loop: the JSON found, the fallback, or the stripped text.
StreamReturns ==
    /\ pc = "stream_closed"
    /\ ret' = StreamResult(locals.collected_tokens, locals.candidate_json)
    /\ pc' = "stream_returned"
    /\ UNCHANGED <<arg, pipeline>>

SpecStream ==
    InitStream /\ [][Consume \/ StreamEnds \/ StreamRaises \/ StreamReturns]_vars

(***************************************************************************)
(* Properties of ask_ollama_stream (C18)                                   *)
(***************************************************************************)

\* The accumulated text after the first k fragments.
TextAfter(k) == Join(SubSeq(locals.collected_tokens, 1, k))

\* After the k-th fragment the complete JSON can be extracted or the
\* number of fragments has reached max_tokens.
StopsAfter(k) ==
    \/ ~CompleteJson(TextAfter(k)).isNone
    \/ arg.max_tokens # None /\ k >= arg.max_tokens

\* The function runs or has returned, and max_tokens is None or at least 1.
Streaming ==
    /\ pc \in {"ask_ollama_stream", "stream_closed", "stream_returned"}
    /\ arg.max_tokens = None \/ arg.max_tokens >= 1

\* No fragment is consumed after one that stops the stream, the loop is
\* left at such a fragment, and at most max_tokens fragments are consumed.
StopsAtFirst ==
    /\ locals.token_count = Len(locals.collected_tokens)
    /\ \A k \in 1..(locals.token_count - 1) : ~StopsAfter(k)
    /\ (pc = "ask_ollama_stream" /\ locals.token_count >= 1) =>
           ~StopsAfter(locals.token_count)
    /\ arg.max_tokens # None => locals.token_count <= arg.max_tokens

\* The text is a JSON object with exactly the keys "answer" and "reason",
\* both texts.
IsFallbackObject(text) ==
    LET parsed == robust_json_parse(text)
    IN  /\ parsed.t = "dict"
        /\ Len(parsed.items) = 2
        /\ HasKey(parsed, Key_answer)
        /\ HasKey(parsed, Key_reason)
        /\ Get(parsed, Key_answer, PyNone).t = "str"
        /\ Get(parsed, Key_reason, PyNone).t = "str"

\* What is returned for the accumulated text full_text, the fallback being
\* decided on the text tested.
ReturnsFor(full_text, tested) ==
    IF ~CompleteJson(full_text).isNone
    THEN ret = CompleteJson(full_text)
    ELSE IF StartsWith(tested, <<"{">>)
    THEN ~ret.isNone /\ IsFallbackObject(ret.s)
    ELSE ret = SomeText(tested)

=============================================================================
